---- MODULE Spec2Model ----
(***************************************************************************)
(* Octopus Energy mini dashboard: the price cache, the price fetchers and  *)
(* the series reconciliation of draw_dashboard, for the two variants       *)
(* dashboard.py (continuous) and dashboard-snap.py (snapshot).             *)
(*                                                                         *)
(* Time is counted in half-hour slots.  An aware datetime is a record      *)
(* [utc, off]: the UTC instant and the UTC offset, both in slots; a local  *)
(* calendar date is a day number.  Python's None is the empty tuple and a  *)
(* present value v is the one-element tuple <<v>>.                         *)
(***************************************************************************)
EXTENDS Integers, Sequences, FiniteSets, TLC

VARIABLES
    variant,          \* which program runs: "dashboard" or "snap"
    tz,               \* the local UTC offset, in slots
    dst,              \* None, or <<[at, off]>>: from UTC slot at on, off
    today,            \* datetime.now().date()
    files,            \* the cache directory: date |-> price-data-<date>.json
    today_prices,     \* dashboard.py main: today's series
    tomorrow_prices,  \* dashboard.py main: tomorrow's series
    agile_prices,     \* dashboard-snap.py main: the one series
    gas_price,        \* [today, tomorrow], each None or <<value>>
    ops,              \* the I/O of the last fetch call, in order
    raised,           \* whether the last fetch call raised to its caller
    now,              \* [hour, minute] read by draw_dashboard
    screen,           \* what the last draw_dashboard call drew
    main,             \* where main is: [pc, since, slept, error, exit, flag]
    ha                \* ha_integration: its configuration and last call

vars == <<variant, tz, dst, today, files, today_prices, tomorrow_prices,
          agile_prices, gas_price, ops, raised, now, screen, main, ha>>

---------------------------------------------------------------------------
(* Bounds of the model *)

MaxDay == 1

Dates == 0..(MaxDay + 1)

Offsets == {0, 2}

None == <<>>

Some(v) == <<v>>

SlotsPerDay == 24 * 2

---------------------------------------------------------------------------
(* Sequences *)

\* a sequence given by a rule, as the explicit tuple of its elements
Tabulate(s) == s \o <<>>

\* list.sort(key=lambda x: x['timestamp']): stable, ascending by instant
SortByTimestamp(s) ==
    LET n == Len(s)
        key == Tabulate([i \in 1..n |-> s[i].timestamp.utc])
        rank == Tabulate([i \in 1..n |->
                    Cardinality({j \in 1..n :
                        key[j] < key[i] \/ (key[j] = key[i] /\ j < i)}) + 1])
    IN IF \A i \in 1..(n - 1) : key[i] <= key[i + 1] THEN s
       ELSE IF \A i \in 1..(n - 1) : key[i] > key[i + 1]
       THEN Tabulate([k \in 1..n |-> s[n + 1 - k]])
       ELSE Tabulate([k \in 1..n |-> s[CHOOSE i \in 1..n : rank[i] = k]])

Range(s) == {s[i] : i \in 1..Len(s)}

MinOf(s) == CHOOSE v \in Range(s) : \A w \in Range(s) : v <= w

MaxOf(s) == CHOOSE v \in Range(s) : \A w \in Range(s) : v >= w

PricesOf(s) == Tabulate([i \in 1..Len(s) |-> s[i].price])

---------------------------------------------------------------------------
(* Datetimes *)

LocalSlot(ts) == ts.utc + ts.off

DateOf(ts) == LocalSlot(ts) \div SlotsPerDay

HourOf(ts) == (LocalSlot(ts) % SlotsPerDay) \div 2

MinuteOf(ts) == (LocalSlot(ts) % 2) * 30

\* the local zone's offset at a UTC instant
utcoffset(utc) == IF dst # None /\ utc >= dst[1].at THEN dst[1].off ELSE tz

astimezone(utc) == [utc |-> utc, off |-> utcoffset(utc)]

isoformat(ts) == <<DateOf(ts), HourOf(ts), MinuteOf(ts), ts.off>>

fromisoformat(str) ==
    [utc |-> str[1] * SlotsPerDay + str[2] * 2 + str[3] \div 30 - str[4],
     off |-> str[4]]

---------------------------------------------------------------------------
(* The remote tariff API *)

Price(utc) == ((utc * 7) % 45) - 4

Counts == {0, 1, 48}

BadAt == {0, 2}

Responses ==
    [status : {"neterr", "http_error", "badjson"}, n : {0}, bad : {0}]
    \cup {r \in [status : {"ok"}, n : Counts, bad : BadAt] : r.bad <= r.n}

Results(r, from) ==
    Tabulate([i \in 1..r.n |->
        [valid_from |-> from + (r.n - i),
         value_inc_vat |-> Price(from + (r.n - i)),
         ok |-> i # r.bad]])

---------------------------------------------------------------------------
(* The cache directory.  A file is [kind, items]: kind "absent" (no file), *)
(* "invalid_json" (json.load raises) or "json" (a JSON array of items).    *)
(* A serialized item holds timestamp and date as ISO strings; a missing or *)
(* malformed timestamp is the empty tuple.                                 *)

Absent == [kind |-> "absent", items |-> <<>>]

InvalidJson == [kind |-> "invalid_json", items |-> <<>>]

JsonFile(items) == [kind |-> "json", items |-> items]

exists(f) == f.kind # "absent"

\* mutant of OldDates: yesterday's file is kept
OldDates_keep_yesterday(fs, day) ==
    {d \in Dates : exists(fs[d]) /\ d < day - 1}

\* the files with file_date < today
OldDates(fs, day) == {d \in Dates : exists(fs[d]) /\ d < day}

RECURSIVE RemoveOps(_)
RemoveOps(ds) ==
    IF ds = {} THEN <<>>
    ELSE LET d == CHOOSE x \in ds : \A y \in ds : x <= y
         IN <<[op |-> "remove", date |-> d, n |-> 0]>> \o RemoveOps(ds \ {d})

cleanup_old_cache(fs, day) ==
    [d \in Dates |-> IF d \in OldDates(fs, day) THEN Absent ELSE fs[d]]

cache_item(p) ==
    [hour |-> p.hour, minute |-> p.minute, price |-> p.price,
     timestamp |-> isoformat(p.timestamp), date |-> <<p.date>>]

cache_data(prices) ==
    Tabulate([i \in 1..Len(prices) |-> cache_item(prices[i])])

load_item(item) ==
    LET ts == fromisoformat(item.timestamp)
    IN [hour |-> item.hour, minute |-> item.minute, price |-> item.price,
        timestamp |-> ts, date |-> DateOf(ts)]

CacheReadFails(f) ==
    \/ f.kind = "invalid_json"
    \/ \E i \in 1..Len(f.items) : f.items[i].timestamp = <<>>

\* mutant of load_cache: the items come back in reverse order
load_cache_reversed(f) ==
    Tabulate([i \in 1..Len(f.items) |->
                 load_item(f.items[Len(f.items) + 1 - i])])

load_cache(f) ==
    Tabulate([i \in 1..Len(f.items) |-> load_item(f.items[i])])

price_point(item) ==
    LET local == astimezone(item.valid_from)
    IN [hour |-> HourOf(local), minute |-> MinuteOf(local),
        price |-> item.value_inc_vat, timestamp |-> local,
        date |-> DateOf(local)]

---------------------------------------------------------------------------
(* dashboard.py fetch_agile_prices.  The call is threaded through a        *)
(* context c = [files, ops, today_prices, tomorrow_prices, exc, done]:     *)
(* exc is an exception on its way to the function's outer handler, done a  *)
(* return already taken.                                                   *)

\* one entry of the call's I/O log: the operation, the date it is about
\* and the number of price points it carried
Log(c, op, d, n) ==
    [c EXCEPT !.ops = Append(@, [op |-> op, date |-> d, n |-> n])]

FirstBad(items) ==
    IF \E i \in 1..Len(items) : ~items[i].ok
    THEN CHOOSE i \in 1..Len(items) :
            ~items[i].ok /\ \A j \in 1..(i - 1) : items[j].ok
    ELSE Len(items) + 1

\* the points appended by the loop over data['results'] until an item
\* raises, keeping the local date `day` only
parse_results(items, day) ==
    SelectSeq([i \in 1..(FirstBad(items) - 1) |-> price_point(items[i])],
              LAMBDA p : p.date = day)

ResponseFails(r, items) == r.status # "ok" \/ FirstBad(items) <= Len(items)

\* today = datetime.now().date(), then the loop over glob("price-data-*.json")
enter_fetch(fs, day) ==
    [files |-> cleanup_old_cache(fs, day),
     ops |-> <<[op |-> "now", date |-> day, n |-> 0]>>
             \o RemoveOps(OldDates(fs, day)),
     today_prices |-> <<>>, tomorrow_prices |-> <<>>,
     exc |-> FALSE, done |-> FALSE]

read_cache(c, d, key) ==
    IF c.exc \/ ~exists(c.files[d]) THEN c
    ELSE IF CacheReadFails(c.files[d])
         THEN [Log(c, "read_error", d, 0) EXCEPT !.exc = TRUE]
         ELSE [Log(c, "read", d, Len(c.files[d].items)) EXCEPT
                  ![key] = load_cache(c.files[d])]

return_if_both_cached(c) ==
    IF ~c.exc /\ c.today_prices # <<>> /\ c.tomorrow_prices # <<>>
    THEN [c EXCEPT !.done = TRUE]
    ELSE c

\* mutant of needs_today: today is requested whatever the cache gave
needs_today_always(c) == TRUE

\* if not today_prices:
needs_today(c) == c.today_prices = <<>>

\* if not tomorrow_prices:
needs_tomorrow(c) == c.tomorrow_prices = <<>>

fetch_today(c, day, r) ==
    IF c.exc \/ c.done \/ ~needs_today(c) THEN c
    ELSE LET items == Results(r, day * SlotsPerDay)
             got == SortByTimestamp(parse_results(items, day))
         IN IF ResponseFails(r, items)
            THEN [Log(c, "get_error", day, 0) EXCEPT !.exc = TRUE]
            ELSE [Log(Log(c, "get", day, Len(got)), "write", day, Len(got))
                    EXCEPT !.today_prices = got,
                           !.files[day] = JsonFile(cache_data(got))]

fetch_tomorrow(c, day, r) ==
    IF c.exc \/ c.done \/ ~needs_tomorrow(c) THEN c
    ELSE LET items == Results(r, (day + 1) * SlotsPerDay)
             got == SortByTimestamp(parse_results(items, day + 1))
             partial == parse_results(items, day + 1)
         IN IF r.status # "ok"
            THEN Log(c, "get_error", day + 1, 0)
            ELSE IF ResponseFails(r, items)
            THEN [Log(c, "get_error", day + 1, Len(partial)) EXCEPT
                     !.tomorrow_prices = partial]
            ELSE IF got = <<>>
            THEN [Log(c, "get", day + 1, 0) EXCEPT !.tomorrow_prices = got]
            ELSE [Log(Log(c, "get", day + 1, Len(got)),
                      "write", day + 1, Len(got))
                    EXCEPT !.tomorrow_prices = got,
                           !.files[day + 1] = JsonFile(cache_data(got))]

\* mutant of except_return_empty: the handler returns what the call had
\* loaded when the exception was raised
except_return_loaded(c) == [c EXCEPT !.exc = FALSE]

\* except Exception as e: ... return [], []
except_return_empty(c) ==
    IF c.exc
    THEN [c EXCEPT !.today_prices = <<>>, !.tomorrow_prices = <<>>,
                   !.exc = FALSE]
    ELSE c

fetch_agile_prices(fs, day, rToday, rTomorrow) ==
    LET c0 == enter_fetch(fs, day)
        c1 == read_cache(c0, day, "today_prices")
        c2 == read_cache(c1, day + 1, "tomorrow_prices")
        c3 == return_if_both_cached(c2)
        c4 == fetch_today(c3, day, rToday)
        c5 == fetch_tomorrow(c4, day, rTomorrow)
    IN except_return_empty(c5)

---------------------------------------------------------------------------
(* dashboard-snap.py fetch_agile_prices: one series and one cache file     *)
(* (today's) holding every fetched point.                                  *)

SnapCounts == {0, 1, 96}

SnapResponses ==
    [status : {"neterr", "http_error", "badjson"}, n : {0}, bad : {0}]
    \cup {r \in [status : {"ok"}, n : SnapCounts, bad : BadAt] : r.bad <= r.n}

snap_load_item(item) ==
    [hour |-> item.hour, minute |-> item.minute, price |-> item.price,
     timestamp |-> fromisoformat(item.timestamp), date |-> item.date[1]]

snap_load_cache(f) ==
    Tabulate([i \in 1..Len(f.items) |-> snap_load_item(f.items[i])])

snap_enter_fetch(fs, day) ==
    [files |-> cleanup_old_cache(fs, day),
     ops |-> <<[op |-> "now", date |-> day, n |-> 0]>>
             \o RemoveOps(OldDates(fs, day)),
     prices |-> <<>>, exc |-> FALSE, done |-> FALSE]

snap_read_cache(c, day) ==
    IF ~exists(c.files[day]) THEN c
    ELSE IF CacheReadFails(c.files[day])
         THEN [Log(c, "read_error", day, 0) EXCEPT !.exc = TRUE]
         ELSE [Log(c, "read", day, Len(c.files[day].items)) EXCEPT
                  !.prices = snap_load_cache(c.files[day]), !.done = TRUE]

snap_fetch_fresh(c, day, r) ==
    IF c.exc \/ c.done THEN c
    ELSE LET items == Results(r, day * SlotsPerDay)
             got == SortByTimestamp(Tabulate(
                        [i \in 1..Len(items) |-> price_point(items[i])]))
         IN IF ResponseFails(r, items)
            THEN [Log(c, "get_error", day, 0) EXCEPT !.exc = TRUE]
            ELSE [Log(Log(c, "get", day, Len(got)), "write", day, Len(got))
                    EXCEPT !.prices = got,
                           !.files[day] = JsonFile(cache_data(got))]

\* except Exception as e: ... return []
snap_except_return_empty(c) ==
    IF c.exc THEN [c EXCEPT !.prices = <<>>, !.exc = FALSE] ELSE c

snap_fetch_agile_prices(fs, day, r) ==
    snap_except_return_empty(
        snap_fetch_fresh(snap_read_cache(snap_enter_fetch(fs, day), day),
                         day, r))

---------------------------------------------------------------------------
(* fetch_gas_price, both variants.  A gas result is [today, tomorrow, exc] *)

GasValue(d) == 6 + d

GasResponses ==
    [status : {"neterr", "http_error", "badjson"}, n : {0}, bad : {0}]
    \cup {r \in [status : {"ok"}, n : 0..2, bad : BadAt] : r.bad <= r.n}

GasResults(r, fromDay) ==
    Tabulate([i \in 1..r.n |->
        [valid_from |-> (fromDay + (r.n - i)) * SlotsPerDay,
         value_inc_vat |-> GasValue(fromDay + (r.n - i)),
         ok |-> i # r.bad]])

NoGas == [today |-> None, tomorrow |-> None]

\* the value the loop leaves for local date d: the last matching item's
LastFor(items, d) ==
    LET hits == {i \in 1..Len(items) :
                    DateOf(astimezone(items[i].valid_from)) = d}
    IN IF hits = {} THEN None
       ELSE Some(items[CHOOSE i \in hits : \A j \in hits : j <= i].value_inc_vat)

\* the request of today and tomorrow in one call; `failed` is the set of
\* days whose request, status check or parse failed
gas_body(day, r) ==
    LET items == GasResults(r, day)
    IN IF ResponseFails(r, items)
       THEN [today |-> None, tomorrow |-> None, exc |-> TRUE,
             failed |-> {day, day + 1}]
       ELSE [today |-> LastFor(items, day),
             tomorrow |-> LastFor(items, day + 1), exc |-> FALSE,
             failed |-> {}]

\* data['results'][0]['value_inc_vat'] if data['results'] else None
first_value(items) ==
    IF items = <<>> THEN None ELSE Some(items[1].value_inc_vat)

FirstRaises(r, items) ==
    r.status \in {"neterr", "badjson"} \/ (items # <<>> /\ ~items[1].ok)

snap_gas_body(day, r1, r2) ==
    LET items1 == GasResults(r1, day)
        items2 == GasResults(r2, day + 1)
    IN IF r1.status = "http_error" \/ FirstRaises(r1, items1)
       THEN [today |-> None, tomorrow |-> None, exc |-> TRUE,
             failed |-> {day}]
       ELSE IF r2.status = "http_error"
       THEN [today |-> first_value(items1), tomorrow |-> None,
             exc |-> FALSE, failed |-> {day + 1}]
       ELSE IF FirstRaises(r2, items2)
       THEN [today |-> first_value(items1), tomorrow |-> None,
             exc |-> TRUE, failed |-> {day + 1}]
       ELSE [today |-> first_value(items1),
             tomorrow |-> first_value(items2), exc |-> FALSE,
             failed |-> {}]

\* except Exception as e: ... return None, None
gas_except_return_none(g) ==
    IF g.exc
    THEN [g EXCEPT !.today = None, !.tomorrow = None, !.exc = FALSE]
    ELSE g

fetch_gas_price(day, r) == gas_except_return_none(gas_body(day, r))

snap_fetch_gas_price(day, r1, r2) ==
    gas_except_return_none(snap_gas_body(day, r1, r2))

GasOps(g, day) ==
    [i \in 1..2 |->
        [op |-> IF day + i - 1 \in g.failed THEN "get_gas_error"
                ELSE "get_gas",
         date |-> day + i - 1, n |-> 0]]

---------------------------------------------------------------------------
(* The state machine of the fetchers: the calls main makes, the calendar   *)
(* and damage to a cache file from outside the program.                    *)

\* main before it is called
NotStarted ==
    [pc |-> "idle", since |-> 0, slept |-> 0, error |-> "none",
     exit |-> "none", mock_tomorrow |-> FALSE, elapsed |-> 0,
     fetched |-> FALSE, redrawn |-> FALSE]

\* ha_integration without ha_config.py and before any call
NotConfigured ==
    [CONFIG_AVAILABLE |-> FALSE, CONDITIONS |-> <<>>,
     CONDITION_LOGIC |-> "AND", called |-> FALSE, responses |-> <<>>,
     result |-> FALSE]

Blank ==
    [drawn |-> FALSE, loading |-> FALSE, display_prices |-> <<>>,
     all_today |-> <<>>, current_price |-> None, min_price |-> None,
     max_price |-> None, has_tomorrow |-> FALSE, tomorrow_start_idx |-> 0,
     chart |-> FALSE, tint |-> FALSE, tmrw_label |-> FALSE,
     gas_tmrw_label |-> FALSE, chart_min_price |-> 0, chart_max_price |-> 0,
     price_range |-> 0, bars |-> <<>>, error |-> "none", bar_width |-> 0,
     draws |-> <<>>, now_color |-> "none", now_text |-> None]

Init ==
    /\ variant \in {"dashboard", "snap"}
    /\ tz \in Offsets
    /\ dst = None
    /\ today = 0
    /\ files = [d \in Dates |-> Absent]
    /\ today_prices = <<>>
    /\ tomorrow_prices = <<>>
    /\ agile_prices = <<>>
    /\ gas_price = NoGas
    /\ ops = <<>>
    /\ raised = FALSE
    /\ now = [hour |-> 0, minute |-> 0]
    /\ screen = Blank
    /\ main = NotStarted
    /\ ha = NotConfigured

FetchAgilePrices ==
    /\ variant = "dashboard"
    /\ \E rToday \in Responses, rTomorrow \in Responses :
         LET c == fetch_agile_prices(files, today, rToday, rTomorrow)
         IN /\ files' = c.files
            /\ ops' = c.ops
            /\ today_prices' = c.today_prices
            /\ tomorrow_prices' = c.tomorrow_prices
            /\ raised' = c.exc
    /\ UNCHANGED <<ha, main, variant, tz, dst, today, agile_prices, gas_price, now, screen>>

SnapFetchAgilePrices ==
    /\ variant = "snap"
    /\ \E r \in SnapResponses :
         LET c == snap_fetch_agile_prices(files, today, r)
         IN /\ files' = c.files
            /\ ops' = c.ops
            /\ agile_prices' = c.prices
            /\ raised' = c.exc
    /\ UNCHANGED <<ha, main, variant, tz, dst, today, today_prices, tomorrow_prices,
                   gas_price, now, screen>>

FetchGasPrice ==
    /\ variant = "dashboard"
    /\ \E r \in GasResponses :
         LET g == fetch_gas_price(today, r)
         IN /\ gas_price' = [today |-> g.today, tomorrow |-> g.tomorrow]
            /\ raised' = g.exc
            /\ ops' = GasOps(g, today)
    /\ UNCHANGED <<ha, main, variant, tz, dst, today, files, today_prices, tomorrow_prices,
                   agile_prices, now, screen>>

SnapFetchGasPrice ==
    /\ variant = "snap"
    /\ \E r1 \in GasResponses, r2 \in GasResponses :
         /\ r1.n <= 1 /\ r2.n <= 1
         /\ LET g == snap_fetch_gas_price(today, r1, r2)
            IN /\ gas_price' = [today |-> g.today, tomorrow |-> g.tomorrow]
               /\ raised' = g.exc
               /\ ops' = GasOps(g, today)
    /\ UNCHANGED <<ha, main, variant, tz, dst, today, files, today_prices, tomorrow_prices,
                   agile_prices, now, screen>>

NextDay ==
    /\ today < MaxDay
    /\ today' = today + 1
    /\ UNCHANGED <<ha, main, variant, tz, dst, files, today_prices, tomorrow_prices,
                   agile_prices, gas_price, ops, raised, now, screen>>

\* a cache file damaged from outside: cut short, or an item's timestamp lost
CorruptCache ==
    /\ \E d \in {today, today + 1} :
         /\ files[d].kind = "json"
         /\ \/ files' = [files EXCEPT ![d] = InvalidJson]
            \/ /\ files[d].items # <<>>
               /\ files' = [files EXCEPT ![d].items[1].timestamp = <<>>]
    /\ UNCHANGED <<ha, main, variant, tz, dst, today, today_prices, tomorrow_prices,
                   agile_prices, gas_price, ops, raised, now, screen>>

Next ==
    \/ FetchAgilePrices
    \/ SnapFetchAgilePrices
    \/ NextDay
    \/ CorruptCache

Spec == Init /\ [][Next]_vars

GasInit ==
    /\ variant \in {"dashboard", "snap"}
    /\ tz \in Offsets
    /\ dst = None
    /\ today \in 0..MaxDay
    /\ files = [d \in Dates |-> Absent]
    /\ today_prices = <<>>
    /\ tomorrow_prices = <<>>
    /\ agile_prices = <<>>
    /\ gas_price = NoGas
    /\ ops = <<>>
    /\ raised = FALSE
    /\ now = [hour |-> 0, minute |-> 0]
    /\ screen = Blank
    /\ main = NotStarted
    /\ ha = NotConfigured

GasNext ==
    \/ FetchGasPrice
    \/ SnapFetchGasPrice

GasSpec == GasInit /\ [][GasNext]_vars

---------------------------------------------------------------------------
(* Properties of the fetchers, checked under Spec.  ops is the log of the  *)
(* last fetch_agile_prices call; its first entry is the date the call      *)
(* read from the clock.                                                    *)

FetchReturned == ops # <<>> /\ ops[1].op = "now"

CallDay == ops[1].date

Requests(d) ==
    {i \in 1..Len(ops) : ops[i].op \in {"get", "get_error"} /\ ops[i].date = d}

CacheGavePoints(d) ==
    \E i \in 1..Len(ops) :
        ops[i].op = "read" /\ ops[i].date = d /\ ops[i].n > 0

C8_OnlyMissingDayRequested ==
    (variant = "dashboard" /\ FetchReturned) =>
      \A d \in Dates :
        /\ CacheGavePoints(d) => Requests(d) = {}
        /\ Cardinality(Requests(d)) <= 1
        /\ Requests(d) # {} => d \in {CallDay, CallDay + 1}

\* today came from the cache and only tomorrow was requested
C8_Witness ==
    /\ variant = "dashboard" /\ FetchReturned
    /\ CacheGavePoints(CallDay) /\ ~CacheGavePoints(CallDay + 1)
    /\ Requests(CallDay) = {} /\ Requests(CallDay + 1) # {}
    /\ today_prices # <<>>

\* C9: fetch_agile_prices never raises, and a day whose request, status
\* check or response parsing failed is returned as an empty series
C9_FailedFetchReturnsEmpty ==
    FetchReturned =>
      /\ ~raised
      /\ \A i \in 1..Len(ops) :
            ops[i].op = "get_error" =>
              IF variant = "snap" THEN agile_prices = <<>>
              ELSE /\ ops[i].date = CallDay => today_prices = <<>>
                   /\ ops[i].date = CallDay + 1 => tomorrow_prices = <<>>

\* C10: a cache file that cannot be read or parsed counts as a cache miss,
\* and its day is requested from the API in the same call
C10_UnreadableCacheIsRefetched ==
    FetchReturned =>
      \A i \in 1..Len(ops) :
        ops[i].op = "read_error" =>
          \E j \in (i + 1)..Len(ops) :
            ops[j].op \in {"get", "get_error"} /\ ops[j].date = ops[i].date

\* fetch_gas_price, under GasSpec: it never raises, and a day whose
\* request, status check or parse failed is returned as None
GasFailureGivesNone ==
    /\ ~raised
    /\ \A i \in 1..Len(ops) :
         ops[i].op = "get_gas_error" =>
           IF ops[i].date = today THEN gas_price.today = None
           ELSE gas_price.tomorrow = None

---------------------------------------------------------------------------
(* draw_dashboard: the series reconciliation and what it puts on screen.   *)
(* A screen is the record Blank with the fields the call sets.             *)

MinTodayForTrim == 24

TrimCount == 24

NoonHour == 12

Loading == [Blank EXCEPT !.drawn = TRUE, !.loading = TRUE]

\* next((p['price'] for p in all_today if p['hour'] == current_hour and
\*       p['minute'] == current_minute // 30 * 30), None)
IsCurrentSlot(p, nw) == p.hour = nw.hour /\ p.minute = (nw.minute \div 30) * 30

\* mutant of find_current_price: the minute is not floored to the slot
find_current_price_exact(all_today, nw) ==
    LET hits == {i \in 1..Len(all_today) :
                    all_today[i].hour = nw.hour
                    /\ all_today[i].minute = nw.minute}
    IN IF hits = {} THEN None
       ELSE Some(all_today[CHOOSE i \in hits : \A j \in hits : i <= j].price)

find_current_price(all_today, nw) ==
    LET hits == {i \in 1..Len(all_today) : IsCurrentSlot(all_today[i], nw)}
    IN IF hits = {} THEN None
       ELSE Some(all_today[CHOOSE i \in hits : \A j \in hits : i <= j].price)

\* mutants of trim_today: no length guard; no tomorrow guard; no trim
trim_today_unguarded(tp, has_tomorrow) ==
    IF has_tomorrow THEN SubSeq(tp, TrimCount + 1, Len(tp)) ELSE tp

trim_today_always(tp, has_tomorrow) ==
    IF Len(tp) >= MinTodayForTrim THEN SubSeq(tp, TrimCount + 1, Len(tp))
    ELSE tp

trim_today_never(tp, has_tomorrow) == tp

\* today_prices[24:]
trim_today(tp, has_tomorrow) ==
    IF has_tomorrow /\ Len(tp) >= MinTodayForTrim
    THEN SubSeq(tp, TrimCount + 1, Len(tp))
    ELSE tp

\* mutant of Truthy: an absent value counts as present
Truthy_of_none(v) == v = None \/ v[1] # 0

Truthy(v) == v # None /\ v[1] # 0

HEIGHT == 240

y_offset == 30

box_height == 50

chart_y == y_offset + box_height + 10

chart_height == HEIGHT - chart_y - 20

chart_bottom == chart_y + chart_height

\* int(x) of the quotient num / den, den > 0: truncation toward zero
int(num, den) ==
    IF num >= 0 THEN num \div den ELSE 0 - ((0 - num) \div den)

\* mutant of price_range: the guard against a zero range is missing
price_range_unguarded(chart_max_price, chart_min_price) ==
    chart_max_price - chart_min_price

\* chart_max_price - chart_min_price if they differ, else 1
price_range(chart_max_price, chart_min_price) ==
    IF chart_max_price # chart_min_price
    THEN chart_max_price - chart_min_price
    ELSE 1

\* mutant of bar: the height is rounded to the nearest pixel
bar_rounded(price, chart_min_price, range) ==
    LET bar_height ==
            (2 * (price - chart_min_price) * chart_height + range)
                \div (2 * range)
    IN [height |-> bar_height, top |-> chart_bottom - bar_height,
        bottom |-> chart_bottom]

\* bar_height = int((price - chart_min_price) / price_range * chart_height)
\* and the rectangle from y = chart_y + chart_height - bar_height down to
\* chart_y + chart_height
bar(price, chart_min_price, range) ==
    LET bar_height == int((price - chart_min_price) * chart_height, range)
    IN [height |-> bar_height, top |-> chart_bottom - bar_height,
        bottom |-> chart_bottom]

WIDTH == 320

gridline_interval == 10

\* dashboard.py: chart_x, chart_width; the chart ends at chart_x + chart_width
chart_x == 30

chart_width == WIDTH - 35

\* dashboard-snap.py: chart_left, chart_right and chart_width
chart_left == 20

chart_right == WIDTH - 5

snap_chart_width == chart_right - chart_left

\* one drawing call on the image: what is drawn, the bar index or the price
\* level it is drawn for, and where
DrawOp(op, idx, x, y) == [op |-> op, idx |-> idx, x |-> x, y |-> y]

\* get_price_color(price)
get_price_color(price) ==
    IF price < 10 THEN "GREEN"
    ELSE IF price < 20 THEN "BLUE"
    ELSE IF price < 35 THEN "YELLOW"
    ELSE "RED"

\* dashboard.py: range(0, int(chart_max_price) + 10, gridline_interval)
price_levels(chart_min_price, chart_max_price) ==
    LET stop == chart_max_price + 10
        n == IF stop > 0
             THEN (stop + gridline_interval - 1) \div gridline_interval
             ELSE 0
    IN Tabulate([k \in 1..n |-> (k - 1) * gridline_interval])

\* dashboard-snap.py: range(min_grid, max_grid + 1, gridline_interval)
grid_prices(chart_min_price, chart_max_price) ==
    LET min_grid == (chart_min_price \div gridline_interval)
                        * gridline_interval
        max_grid == ((chart_max_price \div gridline_interval) + 1)
                        * gridline_interval
        n == ((max_grid - min_grid) \div gridline_interval) + 1
    IN Tabulate([k \in 1..n |-> min_grid + (k - 1) * gridline_interval])

\* y_pos of a price level
y_pos(level, chart_min_price, range) ==
    chart_bottom - int((level - chart_min_price) * chart_height, range)

\* the gridline loop: dashboard.py tests price_level >= chart_min_price,
\* the snapshot variant chart_min_price <= grid_price <= chart_max_price;
\* both then test chart_y <= y_pos <= chart_y + chart_height
gridlines(snap, chart_min_price, chart_max_price, range) ==
    LET levels == IF snap THEN grid_prices(chart_min_price, chart_max_price)
                  ELSE price_levels(chart_min_price, chart_max_price)
        kept == SelectSeq(levels, LAMBDA level :
                    /\ level >= chart_min_price
                    /\ snap => level <= chart_max_price
                    /\ chart_y <= y_pos(level, chart_min_price, range)
                    /\ y_pos(level, chart_min_price, range) <= chart_bottom)
    IN Tabulate([k \in 1..Len(kept) |->
            DrawOp("gridline", kept[k],
                   IF snap THEN chart_left ELSE chart_x,
                   y_pos(kept[k], chart_min_price, range))])

\* mutant of is_current: the test i < tomorrow_start_idx is missing
is_current_anywhere(p, i, tomorrow_start_idx, nw) == IsCurrentSlot(p, nw)

\* hour == current_hour and minute == current_minute // 30 * 30
\* and i < tomorrow_start_idx
is_current(p, i, tomorrow_start_idx, nw) ==
    IsCurrentSlot(p, nw) /\ i < tomorrow_start_idx

\* one pass of the bar loop, i counted from 0 as enumerate does: the bar,
\* the dashed line of the current slot, the hour label
bar_pass(c, i) ==
    LET p == c.display_prices[i + 1]
        x == c.left + i * c.bar_width
        b == bar(p.price, c.chart_min_price, c.range)
    IN <<DrawOp("bar", i, x, b.top)>>
       \o (IF is_current(p, i, c.tomorrow_start_idx, c.nw)
           THEN <<DrawOp("marker", i, x + c.bar_width \div 2, chart_y)>>
           ELSE <<>>)
       \o (IF p.minute = 0 /\ (p.hour % 4 = 0 \/ p.hour = 0)
           THEN <<DrawOp("hour", i,
                         x + (c.bar_width \div 2)
                           - (IF p.hour < 10 THEN 3 ELSE 5),
                         chart_bottom + 2)>>
           ELSE <<>>)

RECURSIVE bar_loop(_, _)
bar_loop(c, i) ==
    IF i >= Len(c.display_prices) THEN <<>>
    ELSE bar_pass(c, i) \o bar_loop(c, i + 1)

\* the peak of tomorrow: dashboard.py writes "Max:" and the price in the
\* block of the tomorrow label; the snapshot variant writes them after the
\* chart block, and only `if has_tomorrow and tomorrow_max`
tomorrow_max_ops(c) ==
    IF c.has_tomorrow /\ c.tomorrow_start_idx < Len(c.display_prices)
    THEN LET tomorrow_max ==
                 MaxOf(PricesOf(SubSeq(c.display_prices,
                                       c.tomorrow_start_idx + 1,
                                       Len(c.display_prices))))
         IN IF c.snap
            THEN IF tomorrow_max # 0
                 THEN <<DrawOp("Max:", tomorrow_max, WIDTH - 30, chart_y + 5)>>
                 ELSE <<>>
            ELSE <<DrawOp("Max:", tomorrow_max, chart_x + chart_width,
                          chart_y + 5)>>
    ELSE <<>>

\* mutant of chart_ops: the tomorrow background is painted after the bars
chart_ops_tint_last(c) ==
    LET split == c.has_tomorrow
                 /\ c.tomorrow_start_idx < Len(c.display_prices)
        tomorrow_start_x == c.left + c.tomorrow_start_idx * c.bar_width
    IN gridlines(c.snap, c.chart_min_price, c.chart_max_price, c.range)
       \o bar_loop(c, 0)
       \o (IF split
           THEN <<DrawOp("tint", c.tomorrow_start_idx, tomorrow_start_x,
                         chart_y),
                  DrawOp("Tmrw", c.tomorrow_start_idx, tomorrow_start_x + 3,
                         chart_y + 5)>>
           ELSE <<>>)

\* the drawing calls of the chart block in the order the code makes them:
\* tomorrow background, gridlines, bars, tomorrow label
chart_ops(c) ==
    LET split == c.has_tomorrow
                 /\ c.tomorrow_start_idx < Len(c.display_prices)
        tomorrow_start_x == c.left + c.tomorrow_start_idx * c.bar_width
    IN (IF split
        THEN <<DrawOp("tint", c.tomorrow_start_idx, tomorrow_start_x,
                      chart_y)>>
        ELSE <<>>)
       \o gridlines(c.snap, c.chart_min_price, c.chart_max_price, c.range)
       \o bar_loop(c, 0)
       \o (IF split
           THEN <<DrawOp("Tmrw", c.tomorrow_start_idx, tomorrow_start_x + 3,
                         chart_y + 5)>>
           ELSE <<>>)
       \o tomorrow_max_ops(c)

\* the block under `if display_prices:` applied to what was drawn so far;
\* a division by a zero price_range raises before anything is displayed
draw_chart(scr, nw, snap) ==
    IF scr.display_prices = <<>> THEN scr
    ELSE LET prices == PricesOf(scr.display_prices)
             actual_min == MinOf(prices)
             chart_min_price == IF 0 < actual_min THEN 0 ELSE actual_min
             chart_max_price == MaxOf(prices)
             range == price_range(chart_max_price, chart_min_price)
             num_bars == Len(scr.display_prices)
             c == [display_prices |-> scr.display_prices,
                   chart_min_price |-> chart_min_price,
                   chart_max_price |-> chart_max_price,
                   range |-> range,
                   bar_width |-> (IF snap THEN snap_chart_width
                                  ELSE chart_width) \div num_bars,
                   left |-> IF snap THEN chart_left ELSE chart_x,
                   has_tomorrow |-> scr.has_tomorrow,
                   tomorrow_start_idx |-> scr.tomorrow_start_idx,
                   nw |-> nw, snap |-> snap]
         IN IF range = 0
            THEN [Blank EXCEPT !.display_prices = scr.display_prices,
                               !.error = "ZeroDivisionError"]
            ELSE [scr EXCEPT
                    !.chart_min_price = chart_min_price,
                    !.chart_max_price = chart_max_price,
                    !.price_range = range,
                    !.bar_width = c.bar_width,
                    !.bars = Tabulate([i \in 1..Len(prices) |->
                                bar(prices[i], chart_min_price, range)]),
                    !.draws = chart_ops(c)]

\* mutant of current_color: only a missing price gets the default colour
current_color_if_not_none(current_price) ==
    IF current_price # None THEN get_price_color(current_price[1])
    ELSE "BLUE"

\* get_price_color(current_price) if current_price else BLUE
current_color(current_price) ==
    IF current_price = None THEN "BLUE"
    ELSE IF current_price[1] = 0 THEN "BLUE"
    ELSE get_price_color(current_price[1])

\* mutant of current_text: only a missing price is left out
current_text_if_not_none(current_price) == current_price

\* if current_price: draw_price_with_small_p(..., current_price, ...)
current_text(current_price) ==
    IF current_price = None THEN None
    ELSE IF current_price[1] = 0 THEN None
    ELSE current_price

\* mutant of reconcile: the statistics are taken over the charted window
reconcile_stats_of_window(tp, mp) ==
    LET has_tomorrow == mp # <<>>
        trimmed == trim_today(tp, has_tomorrow)
    IN [all_today |-> trimmed \o mp, has_tomorrow |-> has_tomorrow,
        today_prices |-> trimmed, display_prices |-> trimmed \o mp]

\* all_today, has_tomorrow, the trimmed today_prices and display_prices
reconcile(tp, mp) ==
    LET has_tomorrow == mp # <<>>
        trimmed == trim_today(tp, has_tomorrow)
    IN [all_today |-> tp, has_tomorrow |-> has_tomorrow,
        today_prices |-> trimmed, display_prices |-> trimmed \o mp]

draw_dashboard(tp, mp, gas_today, gas_tomorrow, nw) ==
    IF tp = <<>> THEN Loading
    ELSE LET rc == reconcile(tp, mp)
             tomorrow_start_idx == Len(rc.today_prices)
             split == rc.has_tomorrow
                      /\ tomorrow_start_idx < Len(rc.display_prices)
         IN draw_chart([Blank EXCEPT
                !.drawn = TRUE,
                !.display_prices = rc.display_prices,
                !.all_today = rc.all_today,
                !.current_price = find_current_price(rc.all_today, nw),
                !.now_color =
                    current_color(find_current_price(rc.all_today, nw)),
                !.now_text =
                    current_text(find_current_price(rc.all_today, nw)),
                !.min_price = Some(MinOf(PricesOf(rc.all_today))),
                !.max_price = Some(MaxOf(PricesOf(rc.all_today))),
                !.has_tomorrow = rc.has_tomorrow,
                !.gas_tmrw_label = rc.has_tomorrow /\ Truthy(gas_tomorrow),
                !.chart = rc.display_prices # <<>>,
                !.tomorrow_start_idx =
                    IF rc.display_prices # <<>> THEN tomorrow_start_idx ELSE 0,
                !.tint = rc.display_prices # <<>> /\ split,
                !.tmrw_label = rc.display_prices # <<>> /\ split],
                nw, FALSE)

\* [p for p in agile_prices if p.get('date', today) == today]
on_date(prices, d) == SelectSeq(prices, LAMBDA p : p.date = d)

\* datetime.combine(today, 12:00) with the first today point's tzinfo
noon_of(day, first) ==
    [utc |-> day * SlotsPerDay + NoonHour * 2 - first.timestamp.off,
     off |-> first.timestamp.off]

snap_trim_today(todays, day, has_tomorrow) ==
    IF has_tomorrow /\ todays # <<>>
    THEN SelectSeq(todays,
            LAMBDA p : p.timestamp.utc >= noon_of(day, todays[1]).utc)
    ELSE todays

snap_reconcile(ap, day) ==
    LET tomorrow_ps == on_date(ap, day + 1)
        has_tomorrow == Len(tomorrow_ps) > 0
        trimmed == snap_trim_today(on_date(ap, day), day, has_tomorrow)
    IN [all_today |-> on_date(ap, day), has_tomorrow |-> has_tomorrow,
        today_prices |-> trimmed,
        display_prices |-> IF has_tomorrow THEN trimmed \o tomorrow_ps
                           ELSE trimmed]

snap_draw_dashboard(ap, gas, nw, day) ==
    IF ap = <<>> THEN Loading
    ELSE LET rc == snap_reconcile(ap, day)
             tomorrow_start_idx == IF rc.has_tomorrow
                                   THEN Len(rc.today_prices)
                                   ELSE Len(rc.display_prices)
             split == rc.has_tomorrow
                      /\ tomorrow_start_idx < Len(rc.display_prices)
         IN draw_chart([Blank EXCEPT
                !.drawn = TRUE,
                !.display_prices = rc.display_prices,
                !.all_today = rc.all_today,
                !.current_price = find_current_price(rc.all_today, nw),
                !.now_color =
                    current_color(find_current_price(rc.all_today, nw)),
                !.now_text =
                    current_text(find_current_price(rc.all_today, nw)),
                !.min_price = IF rc.all_today # <<>>
                              THEN Some(MinOf(PricesOf(rc.all_today)))
                              ELSE Some(0),
                !.max_price = IF rc.all_today # <<>>
                              THEN Some(MaxOf(PricesOf(rc.all_today)))
                              ELSE Some(0),
                !.has_tomorrow = rc.has_tomorrow,
                !.gas_tmrw_label = rc.has_tomorrow /\ Truthy(gas.tomorrow),
                !.chart = rc.display_prices # <<>>,
                !.tomorrow_start_idx =
                    IF rc.display_prices # <<>> THEN tomorrow_start_idx ELSE 0,
                !.tint = rc.display_prices # <<>> /\ split,
                !.tmrw_label = rc.display_prices # <<>> /\ split],
                nw, TRUE)

---------------------------------------------------------------------------
(* The state machine of draw_dashboard: the series, the gas prices and the *)
(* wall clock are drawn from bounded sets and the function is applied.     *)

\* n consecutive half-hourly points of local date d from local slot `first`
Series(d, first, n, off) ==
    Tabulate([i \in 1..n |->
        price_point([valid_from |-> d * SlotsPerDay + first + (i - 1) - off,
                     value_inc_vat |->
                         Price(d * SlotsPerDay + first + (i - 1) - off),
                     ok |-> TRUE])])

\* the same with one price for every point
FlatSeries(d, first, n, off, price) ==
    Tabulate([i \in 1..n |->
        price_point([valid_from |-> d * SlotsPerDay + first + (i - 1) - off,
                     value_inc_vat |-> price,
                     ok |-> TRUE])])

\* first slot, length and the one price of a day of constant price
FlatShapes == {<<0, 2, 0>>, <<0, 2, -3>>, <<0, 48, 12>>, <<0, 2, 139>>}

\* the prices of Series scaled and shifted
ScaledSeries(d, first, n, off, shift, scale) ==
    Tabulate([i \in 1..n |->
        price_point([valid_from |-> d * SlotsPerDay + first + (i - 1) - off,
                     value_inc_vat |->
                         Price(d * SlotsPerDay + first + (i - 1) - off)
                             * scale + shift,
                     ok |-> TRUE])])

\* first slot, length, shift and scale: a day with prices below -10
ScaledShapes == {<<0, 48, -10, 1>>}

TodayShapes == {<<0, 0>>, <<0, 1>>, <<0, 23>>, <<0, 24>>, <<0, 30>>,
                <<2, 46>>, <<0, 48>>}

TomorrowShapes == {<<0, 0>>, <<0, 1>>, <<2, 46>>, <<0, 48>>}

NowHours == {0, 11, 14, 23}

NowMinutes == {0, 15, 30, 45}

GasInputs ==
    {NoGas,
     [today |-> Some(GasValue(0)), tomorrow |-> None],
     [today |-> Some(GasValue(0)), tomorrow |-> Some(GasValue(1))]}

\* the series were fetched on day 0; the call draws them on that day or,
\* midnight having passed since the fetch, on the next
DrawInit ==
    /\ variant \in {"dashboard", "snap"}
    /\ tz \in Offsets
    /\ dst = None
    /\ today \in 0..MaxDay
    /\ files = [d \in Dates |-> Absent]
    /\ \E t \in TodayShapes \cup FlatShapes \cup ScaledShapes,
          m \in TomorrowShapes :
         LET tp == IF Len(t) = 2 THEN Series(0, t[1], t[2], tz)
                   ELSE IF Len(t) = 3
                   THEN FlatSeries(0, t[1], t[2], tz, t[3])
                   ELSE ScaledSeries(0, t[1], t[2], tz, t[3], t[4])
             mp == Series(1, m[1], m[2], tz)
         IN /\ today_prices = IF variant = "dashboard" THEN tp ELSE <<>>
            /\ tomorrow_prices = IF variant = "dashboard" THEN mp ELSE <<>>
            /\ agile_prices = IF variant = "snap" THEN tp \o mp ELSE <<>>
    /\ gas_price \in GasInputs
    /\ ops = <<>>
    /\ raised = FALSE
    /\ now \in [hour : NowHours, minute : NowMinutes]
    /\ screen = Blank
    /\ main = NotStarted
    /\ ha = NotConfigured

DrawDashboard ==
    /\ variant = "dashboard"
    /\ screen' = draw_dashboard(today_prices, tomorrow_prices,
                                gas_price.today, gas_price.tomorrow, now)
    /\ UNCHANGED <<ha, main, variant, tz, dst, today, files, today_prices, tomorrow_prices,
                   agile_prices, gas_price, ops, raised, now>>

SnapDrawDashboard ==
    /\ variant = "snap"
    /\ screen' = snap_draw_dashboard(agile_prices, gas_price, now, today)
    /\ UNCHANGED <<ha, main, variant, tz, dst, today, files, today_prices, tomorrow_prices,
                   agile_prices, gas_price, ops, raised, now>>

DrawNext ==
    \/ DrawDashboard
    \/ SnapDrawDashboard

DrawSpec == DrawInit /\ [][DrawNext]_vars

---------------------------------------------------------------------------
(* Properties of draw_dashboard, checked under DrawSpec *)

\* the series handed to the call: dashboard.py gets two lists, the snapshot
\* variant one list that it splits by date
TodayInput ==
    IF variant = "dashboard" THEN today_prices
    ELSE on_date(agile_prices, today)

TomorrowInput ==
    IF variant = "dashboard" THEN tomorrow_prices
    ELSE on_date(agile_prices, today + 1)

LastPoints(s, n) == SubSeq(s, Len(s) - n + 1, Len(s))

\* C1: in dashboard.py, with 24 to 48 today points and a non-empty tomorrow,
\* the charted series is the last 24 points of today followed by tomorrow
C1_LastTwentyFourThenTomorrow ==
    (/\ variant = "dashboard" /\ screen.drawn
     /\ Len(today_prices) \in 24..48 /\ tomorrow_prices # <<>>)
    => screen.display_prices = LastPoints(today_prices, 24) \o tomorrow_prices

C3_TodayAloneUntrimmed ==
    (screen.drawn /\ TomorrowInput = <<>> /\ TodayInput # <<>>)
    => /\ screen.display_prices = TodayInput
       /\ ~screen.tint
       /\ ~screen.tmrw_label
       /\ ~screen.gas_tmrw_label

C3_Witness ==
    /\ variant = "snap" /\ screen.drawn /\ TomorrowInput = <<>>
    /\ Len(TodayInput) = 48 /\ Len(screen.display_prices) = 48
    /\ gas_price.tomorrow # None

\* C4 as claimed: with 48 today points, 48 tomorrow points and now = 14:00
\* the charted series has exactly 48 entries
C4_FortyEightEntries ==
    (/\ screen.drawn /\ Len(TodayInput) = 48 /\ Len(TomorrowInput) = 48
     /\ now = [hour |-> 14, minute |-> 0])
    => Len(screen.display_prices) = 48

\* C4 as amended: with 48 today points, 48 tomorrow points and now = 14:00
\* the charted series has exactly 72 entries, the last 24 of today followed
\* by all 48 of tomorrow, in both variants
C4_SeventyTwoEntries ==
    (/\ screen.drawn /\ Len(TodayInput) = 48 /\ Len(TomorrowInput) = 48
     /\ now = [hour |-> 14, minute |-> 0])
    => /\ Len(screen.display_prices) = 72
       /\ screen.display_prices = LastPoints(TodayInput, 24) \o TomorrowInput

C4_Witness ==
    /\ variant = "snap" /\ screen.drawn
    /\ Len(TodayInput) = 48 /\ Len(TomorrowInput) = 48
    /\ now = [hour |-> 14, minute |-> 0]
    /\ Len(screen.display_prices) = 72

IsMinOver(v, s) ==
    (\E i \in 1..Len(s) : s[i].price = v) /\ \A i \in 1..Len(s) : v <= s[i].price

IsMaxOver(v, s) ==
    (\E i \in 1..Len(s) : s[i].price = v) /\ \A i \in 1..Len(s) : v >= s[i].price

CurrentSlotOf(s) ==
    {i \in 1..Len(s) :
        s[i].hour = now.hour /\ s[i].minute = (now.minute \div 30) * 30}

\* what the variant draws from the same today series with tomorrow removed
WithoutTomorrow ==
    IF variant = "dashboard"
    THEN draw_dashboard(today_prices, <<>>, gas_price.today,
                        gas_price.tomorrow, now)
    ELSE snap_draw_dashboard(on_date(agile_prices, today), gas_price, now,
                             today)

\* C5: in both variants Min and Max are the minimum and maximum price of the
\* complete today series and Now is looked up in the complete today series;
\* the three are what they would be with tomorrow's data removed
C5_StatsOverFullToday ==
    (screen.drawn /\ TodayInput # <<>>)
    => /\ screen.min_price # None /\ IsMinOver(screen.min_price[1], TodayInput)
       /\ screen.max_price # None /\ IsMaxOver(screen.max_price[1], TodayInput)
       /\ screen.all_today = TodayInput
       /\ screen.current_price = WithoutTomorrow.current_price
       /\ screen.min_price = WithoutTomorrow.min_price
       /\ screen.max_price = WithoutTomorrow.max_price

\* a draw whose trim removed the dearest today point and the current slot
C5_Witness ==
    /\ variant = "dashboard" /\ screen.drawn /\ screen.has_tomorrow
    /\ Len(today_prices) = 30 /\ screen.tomorrow_start_idx = 6
    /\ now.hour = 0 /\ screen.current_price # None
    /\ \A i \in 1..screen.tomorrow_start_idx :
          screen.display_prices[i].price < screen.max_price[1]

\* C6: current_price is the price of a today point whose (hour, minute) is
\* (now.hour, floor(now.minute / 30) * 30), and None exactly when today has
\* no such point, whatever tomorrow holds
C6_CurrentPriceFromToday ==
    (screen.drawn /\ ~screen.loading)
    => /\ (screen.current_price = None) <=> (CurrentSlotOf(TodayInput) = {})
       /\ screen.current_price # None =>
            \E i \in CurrentSlotOf(TodayInput) :
                TodayInput[i].price = screen.current_price[1]

\* today lacks the current slot, tomorrow has it, and no price is current
C6_Witness ==
    /\ screen.drawn /\ ~screen.loading
    /\ CurrentSlotOf(TodayInput) = {}
    /\ CurrentSlotOf(TomorrowInput) # {}
    /\ screen.current_price = None

---------------------------------------------------------------------------
(* Properties of the cache format, checked under Spec *)

\* the series the last call returned for date d
Returned(d) ==
    IF variant = "snap" THEN agile_prices
    ELSE IF d = CallDay THEN today_prices
    ELSE tomorrow_prices

\* the last call ended in the handler of its outer try: a cache file could
\* not be read, or a request outside the inner try of tomorrow failed
TookExceptPath ==
    \E i \in 1..Len(ops) :
        \/ ops[i].op = "read_error"
        \/ /\ ops[i].op = "get_error"
           /\ (variant = "snap" \/ ops[i].date = CallDay)

\* the last call loaded the cache file of date d and it held points
LoadedPoints(d) == FetchReturned /\ CacheGavePoints(d)

\* ... and the call went on to a return statement of its try block
LoadedFromCache(d) == LoadedPoints(d) /\ ~TookExceptPath

SameSeries(a, b) ==
    /\ Len(a) = Len(b)
    /\ \A i \in 1..Len(a) :
          /\ a[i].hour = b[i].hour
          /\ a[i].minute = b[i].minute
          /\ a[i].price = b[i].price
          /\ a[i].date = b[i].date

\* the series held by main whose serialization is the cache file of date d
WrittenTo(d) ==
    {s \in {today_prices, tomorrow_prices, agile_prices} :
        s # <<>> /\ files[d] = JsonFile(cache_data(s))}

\* C11: when a call loads a cache file that holds the
\* serialization of a non-empty series, the series it returns for that file
\* has the same number of points in the same order, each with equal hour,
\* minute, price and date
C11_LoadedSeriesReturned ==
    [][\A d \in Dates : \A s \in WrittenTo(d) :
          LoadedPoints(d)' => SameSeries(Returned(d)', s)]_vars

\* the round trip of the calls that reach a return statement of the try
\* block: the series such a call returns for a loaded file equals the series
\* that was serialized into the file
CacheRoundTrip ==
    [][\A d \in Dates : \A s \in WrittenTo(d) :
          LoadedFromCache(d)' => SameSeries(Returned(d)', s)]_vars

\* tomorrow's file, written on the first day under a non-zero UTC offset, is
\* loaded as today's on the second day
RoundTripReached ==
    /\ variant = "dashboard" /\ tz # 0 /\ today = 1
    /\ LoadedFromCache(today) /\ CallDay = today
    /\ Len(today_prices) > 1
    /\ files[today] = JsonFile(cache_data(today_prices))

---------------------------------------------------------------------------
(* dashboard.py fetch_agile_prices on and around a day whose local UTC     *)
(* offset changes: at 01:00 UTC the zone falls back from +1h to +0h or     *)
(* springs forward from +0h to +1h.                                        *)

ChangeAt(d) == d * SlotsPerDay + 2

ClockChanges ==
    {<<o, [at |-> ChangeAt(d), off |-> 2 - o]>> : o \in Offsets, d \in 0..MaxDay}

DstInit ==
    /\ variant = "dashboard"
    /\ \E ch \in ClockChanges : tz = ch[1] /\ dst = Some(ch[2])
    /\ today = 0
    /\ files = [d \in Dates |-> Absent]
    /\ today_prices = <<>>
    /\ tomorrow_prices = <<>>
    /\ agile_prices = <<>>
    /\ gas_price = NoGas
    /\ ops = <<>>
    /\ raised = FALSE
    /\ now = [hour |-> 0, minute |-> 0]
    /\ screen = Blank
    /\ main = NotStarted
    /\ ha = NotConfigured

DstNext ==
    \/ FetchAgilePrices
    \/ NextDay

DstSpec == DstInit /\ [][DstNext]_vars

UniqueSlots(s) ==
    \A i, j \in 1..Len(s) :
        (s[i].hour = s[j].hour /\ s[i].minute = s[j].minute) => i = j

\* C12: each of the two lists returned by dashboard.py fetch_agile_prices
\* has at most 48 points and no two points with the same (hour, minute),
\* also on a day on which the local UTC offset changes
C12_PerDayUniqueSlots ==
    (variant = "dashboard" /\ FetchReturned) =>
      /\ Len(today_prices) <= SlotsPerDay /\ UniqueSlots(today_prices)
      /\ Len(tomorrow_prices) <= SlotsPerDay /\ UniqueSlots(tomorrow_prices)

---------------------------------------------------------------------------
(* Properties of the written cache files, checked under Spec *)

\* the last call wrote the cache file of date d
Wrote(d) ==
    \E i \in 1..Len(ops) : ops[i].op = "write" /\ ops[i].date = d

\* the local date a serialized item carries in its timestamp
ItemDate(item) == DateOf(fromisoformat(item.timestamp))

\* C13: a cache file written by fetch_agile_prices holds only points whose
\* date is the date in the file's name, in both variants
C13_FileHoldsOwnDateOnly ==
    FetchReturned =>
      \A d \in Dates :
        (Wrote(d) /\ ~CacheReadFails(files[d])) =>
          \A i \in 1..Len(files[d].items) :
            /\ files[d].items[i].date = <<d>>
            /\ ItemDate(files[d].items[i]) = d

\* the same, for dashboard.py alone
C13_DashboardFileHoldsOwnDateOnly ==
    variant = "dashboard" => C13_FileHoldsOwnDateOnly

---------------------------------------------------------------------------
(* dashboard-snap.py --mock-tomorrow: add_mock_tomorrow_data and           *)
(* add_mock_tomorrow_gas.  The random draws are an input: a seed picks the *)
(* low or the high end of each random.uniform range.  A result is          *)
(* [raises, value].                                                        *)

MockSeeds == {0, 1}

\* max(1, base_price) for the hour, with every uniform draw at its low end
\* (seed 0) or at its high end (seed 1)
mock_price(seed, hour) ==
    LET base == IF seed = 0 THEN 15 - 5 ELSE 15 + 10
        shaped == IF hour >= 16 /\ hour < 19
                  THEN base + (IF seed = 0 THEN 10 ELSE 20)
                  ELSE IF hour >= 2 /\ hour < 5
                  THEN base - (IF seed = 0 THEN 12 ELSE 8)
                  ELSE base
    IN IF shaped < 1 THEN 1 ELSE shaped

\* the 48 points of the double loop over range(24) and [0, 30], stamped
\* with the tzinfo of prices[0]
mock_tomorrow(day, off, seed) ==
    Tabulate([k \in 1..SlotsPerDay |->
        [hour |-> (k - 1) \div 2,
         minute |-> ((k - 1) % 2) * 30,
         price |-> mock_price(seed, (k - 1) \div 2),
         timestamp |-> [utc |-> (day + 1) * SlotsPerDay + (k - 1) - off,
                        off |-> off],
         date |-> day + 1]])

add_mock_tomorrow_data(prices, day, seed) ==
    IF \E i \in 1..Len(prices) : prices[i].date = day + 1
    THEN [raises |-> FALSE, value |-> prices]
    ELSE IF prices = <<>>
    THEN [raises |-> TRUE, value |-> prices]
    ELSE [raises |-> FALSE,
          value |-> prices \o mock_tomorrow(day, prices[1].timestamp.off, seed)]

\* gas_price['today'] + random.uniform(-0.5, 0.8), the draw being 0
add_mock_tomorrow_gas(gas) ==
    IF gas.tomorrow # None THEN [raises |-> FALSE, value |-> gas]
    ELSE IF gas.today = None THEN [raises |-> TRUE, value |-> gas]
    ELSE [raises |-> FALSE,
          value |-> [gas EXCEPT !.tomorrow = Some(gas.today[1] + 0)]]

---------------------------------------------------------------------------
(* main, both variants.  main.pc is the statement main is at, main.since   *)
(* the seconds slept since last_update, main.slept the last sleep,         *)
(* main.error the step whose exception is being handled and main.exit how  *)
(* the process ended.  The running time of a step is positive, so          *)
(* current_time - last_update exceeds update_interval as soon as the       *)
(* seconds slept reach it.  A draw raises when the panel or the PNG file   *)
(* cannot be written; KeyboardInterrupt arrives during a sleep.            *)

update_interval == 300

redraw_sleep == 30

back_off == 10

\* dashboard.py imports the ST7789 module at its first attempt; the
\* snapshot script sets MOCK_MODE = True
MOCK_MODE == variant = "snap"

MainResponses ==
    {r \in Responses : r.status \in {"neterr", "ok"} /\ r.bad = 0 /\ r.n # 1}

MainSnapResponses ==
    {r \in SnapResponses : r.status \in {"neterr", "ok"} /\ r.bad = 0}

MainGasResponses ==
    {r \in GasResponses : r.status \in {"neterr", "ok"} /\ r.bad = 0}

\* main's data as it stands
Data ==
    [files |-> files, ops |-> ops, today_prices |-> today_prices,
     tomorrow_prices |-> tomorrow_prices, agile_prices |-> agile_prices,
     gas_price |-> gas_price, raised |-> raised]

\* fetch_agile_prices() then fetch_gas_price(): main's data after the two
\* calls, for every answer of the API
FetchData ==
    IF variant = "dashboard"
    THEN {LET c == fetch_agile_prices(files, today, rToday, rTomorrow)
              g == fetch_gas_price(today, rGas)
          IN [files |-> c.files, ops |-> c.ops,
              today_prices |-> c.today_prices,
              tomorrow_prices |-> c.tomorrow_prices,
              agile_prices |-> agile_prices,
              gas_price |-> [today |-> g.today, tomorrow |-> g.tomorrow],
              raised |-> (c.exc \/ g.exc)] :
            rToday \in MainResponses, rTomorrow \in MainResponses,
            rGas \in MainGasResponses}
    ELSE {LET c == snap_fetch_agile_prices(files, today, r)
              g == snap_fetch_gas_price(today, r1, r2)
          IN [files |-> c.files, ops |-> c.ops,
              today_prices |-> today_prices,
              tomorrow_prices |-> tomorrow_prices,
              agile_prices |-> c.prices,
              gas_price |-> [today |-> g.today, tomorrow |-> g.tomorrow],
              raised |-> (c.exc \/ g.exc)] :
            r \in MainSnapResponses,
            r1 \in {x \in MainGasResponses : x.n <= 1},
            r2 \in {x \in MainGasResponses : x.n <= 1}}

\* main's variables rebound to the data d
Store(d) ==
    /\ files' = d.files
    /\ ops' = d.ops
    /\ today_prices' = d.today_prices
    /\ tomorrow_prices' = d.tomorrow_prices
    /\ agile_prices' = d.agile_prices
    /\ gas_price' = d.gas_price
    /\ raised' = d.raised

KeepData ==
    UNCHANGED <<files, ops, today_prices, tomorrow_prices, agile_prices,
                gas_price, raised>>

\* what draw_dashboard puts on the screen from the data d
Drawn(d) ==
    IF variant = "dashboard"
    THEN draw_dashboard(d.today_prices, d.tomorrow_prices, d.gas_price.today,
                        d.gas_price.tomorrow, now)
    ELSE snap_draw_dashboard(d.agile_prices, d.gas_price, now, today)

Exited(how, step) ==
    [main EXCEPT !.pc = "exited", !.exit = how, !.error = step]

MainInit ==
    /\ variant \in {"dashboard", "snap"}
    /\ tz \in Offsets
    /\ dst = None
    /\ today = 0
    /\ files = [d \in Dates |-> Absent]
    /\ today_prices = <<>>
    /\ tomorrow_prices = <<>>
    /\ agile_prices = <<>>
    /\ gas_price = NoGas
    /\ ops = <<>>
    /\ raised = FALSE
    /\ now = [hour |-> 14, minute |-> 0]
    /\ screen = Blank
    /\ \E flag \in (IF variant = "snap" THEN BOOLEAN ELSE {FALSE}) :
         main = [NotStarted EXCEPT !.pc = "fetch", !.mock_tomorrow = flag]
    /\ ha = NotConfigured

\* "Fetch data immediately"
MainInitialFetch ==
    /\ main.pc = "fetch"
    /\ \E d \in FetchData : Store(d)
    /\ main' = [main EXCEPT !.pc = IF variant = "snap" /\ main.mock_tomorrow
                                   THEN "mock" ELSE "draw"]
    /\ UNCHANGED <<ha, variant, tz, dst, today, now, screen>>

\* if args.mock_tomorrow: the two add_mock calls, outside any try
MainMockTomorrow ==
    /\ main.pc = "mock"
    /\ \E seed \in MockSeeds :
         LET d == add_mock_tomorrow_data(agile_prices, today, seed)
             g == add_mock_tomorrow_gas(gas_price)
         IN IF d.raises
            THEN /\ main' = Exited("exception", "mock")
                 /\ UNCHANGED <<agile_prices, gas_price>>
            ELSE IF g.raises
            THEN /\ main' = Exited("exception", "mock")
                 /\ agile_prices' = d.value
                 /\ UNCHANGED gas_price
            ELSE /\ main' = [main EXCEPT !.pc = "draw"]
                 /\ agile_prices' = d.value
                 /\ gas_price' = g.value
    /\ UNCHANGED <<ha, variant, tz, dst, today, files, today_prices,
                   tomorrow_prices, ops, raised, now, screen>>

\* "Draw once", outside any try; in mock mode main then returns
MainInitialDraw ==
    /\ main.pc = "draw"
    /\ \E panel_ok \in BOOLEAN :
         IF panel_ok
         THEN /\ screen' = Drawn(Data)
              /\ main' = IF MOCK_MODE THEN Exited("returned", "none")
                         ELSE [main EXCEPT !.pc = "loop"]
         ELSE /\ screen' = screen
              /\ main' = Exited("exception", "startup_draw")
    /\ KeepData
    /\ UNCHANGED <<ha, variant, tz, dst, today, now>>

\* the seconds the two fetch calls of a refresh block: no time to speak of,
\* or requests that wait for their answers
MaxFetchTime == 20

FetchTimes == {0, MaxFetchTime}

\* mutant of update_due: a refresh is due as soon as the interval is reached
update_due_at_interval(since) == since >= update_interval

\* current_time - last_update > update_interval
update_due(since) == since > update_interval

\* one pass of the body of `while True`.  main.since is the time from
\* last_update to the start of the pass, main.elapsed the value of
\* current_time - last_update the pass tested, main.fetched and
\* main.redrawn what the pass did
MainLoopIteration ==
    /\ main.pc = "loop"
    /\ LET due == update_due(main.since)
       IN \E d \in (IF due THEN FetchData ELSE {Data}),
             took \in (IF due THEN FetchTimes ELSE {0}),
             panel_ok \in BOOLEAN, interrupted \in BOOLEAN :
            LET since0 == (IF due THEN 0 ELSE main.since) + took
                pass == [main EXCEPT !.elapsed = main.since,
                                     !.fetched = due,
                                     !.since = since0]
            IN /\ Store(d)
               /\ IF ~panel_ok
                  THEN /\ screen' = screen
                       /\ main' = [pass EXCEPT !.pc = "backoff",
                                               !.redrawn = FALSE,
                                               !.error = "loop_draw"]
                  ELSE /\ screen' = Drawn(d)
                       /\ main' = IF interrupted
                                  THEN [pass EXCEPT !.pc = "exited",
                                                    !.exit = "interrupt",
                                                    !.error = "none",
                                                    !.redrawn = TRUE]
                                  ELSE [pass EXCEPT
                                           !.since = since0 + redraw_sleep,
                                           !.slept = redraw_sleep,
                                           !.redrawn = TRUE,
                                           !.error = "none"]
    /\ UNCHANGED <<ha, variant, tz, dst, today, now>>

\* except Exception as e: print, time.sleep(10)
MainBackoff ==
    /\ main.pc = "backoff"
    /\ \E interrupted \in BOOLEAN :
         main' = IF interrupted THEN Exited("interrupt", "none")
                 ELSE [main EXCEPT !.pc = "loop", !.since = @ + back_off,
                                   !.slept = back_off, !.error = "none"]
    /\ KeepData
    /\ UNCHANGED <<ha, variant, tz, dst, today, now, screen>>

\* a cache file is damaged from outside while main sleeps in its loop; the
\* files are read at a refresh only, so the damage is placed in the sleep
\* before one
MainCacheDamaged ==
    /\ main.pc = "loop"
    /\ update_due(main.since)
    /\ CorruptCache

MainNext ==
    \/ MainInitialFetch
    \/ MainMockTomorrow
    \/ MainInitialDraw
    \/ MainLoopIteration
    \/ MainBackoff
    \/ MainCacheDamaged

MainSpec == MainInit /\ [][MainNext]_vars

\* C14: once main has started the process ends only by KeyboardInterrupt:
\* an exception raised by a fetch or draw step is caught at the loop
\* boundary, a 10-second back-off follows and the loop runs again
C14_ExitsOnlyOnInterrupt ==
    [][/\ main.exit' \in {"none", "interrupt"}
       /\ main.error' # "none" => main.pc' = "backoff"
       /\ (main.pc = "backoff" /\ main.exit' = "none") =>
             (main.pc' = "loop" /\ main.slept' = back_off)]_vars

\* the loop proper: inside `while True` an exception of the draw step leads
\* to the back-off and the process ends only by KeyboardInterrupt
LoopCatchesExceptions ==
    [][main.pc \in {"loop", "backoff"} =>
         /\ main.exit' \in {"none", "interrupt"}
         /\ main.error' # "none" => main.pc' = "backoff"
         /\ (main.pc = "backoff" /\ main.exit' = "none") =>
               (main.pc' = "loop" /\ main.slept' = back_off)]_vars

Sorted(s) ==
    \A i \in 1..(Len(s) - 1) : s[i].timestamp.utc <= s[i + 1].timestamp.utc

\* C15: with --mock-tomorrow the two add_mock calls do not raise, whatever
\* the fetchers returned, and the series they leave is sorted by timestamp
\* with at most 48 tomorrow points of unique (hour, minute), minute 0 or 30
C15_MockTomorrowWellFormed ==
    (variant = "snap" /\ main.mock_tomorrow /\ main.pc \notin {"fetch", "mock"})
    => /\ main.error # "mock"
       /\ Sorted(agile_prices)
       /\ LET tm == on_date(agile_prices, today + 1)
          IN /\ Len(tm) <= SlotsPerDay
             /\ UniqueSlots(tm)
             /\ \A i \in 1..Len(tm) : tm[i].minute \in {0, 30}

\* the same for the runs in which both fetchers returned data
MockTomorrowWellFormedGivenData ==
    (/\ variant = "snap" /\ main.mock_tomorrow
     /\ main.pc \notin {"fetch", "mock"} /\ main.error # "mock")
    => /\ Sorted(agile_prices)
       /\ LET tm == on_date(agile_prices, today + 1)
          IN /\ Len(tm) <= SlotsPerDay
             /\ UniqueSlots(tm)
             /\ \A i \in 1..Len(tm) : tm[i].minute \in {0, 30}

---------------------------------------------------------------------------
(* Properties of the chart, checked under DrawSpec *)

\* C16: when the display window is empty, no bar and no gridline is drawn
\* and the 'Loading...' placeholder is rendered, in both variants
C16_EmptyWindowShowsLoading ==
    (screen.drawn /\ screen.display_prices = <<>>)
    => (screen.loading /\ ~screen.chart)

\* the part of it about the chart alone: an empty window draws no chart
EmptyWindowDrawsNoChart ==
    (screen.drawn /\ screen.display_prices = <<>>) => ~screen.chart

ConstantPrice(s) == \A i, j \in 1..Len(s) : s[i].price = s[j].price

\* C17: drawing never divides by zero: for every non-empty display window
\* price_range is chart_max - chart_min with chart_min = min(0, min price),
\* or 1 where the two are equal, and so strictly positive; in a window of
\* one point or of one price all bars have the same height
C17_PriceRangePositive ==
    /\ screen.error = "none"
    /\ (screen.drawn /\ screen.display_prices # <<>>) =>
         /\ screen.price_range > 0
         /\ IsMaxOver(screen.chart_max_price, screen.display_prices)
         /\ \/ screen.chart_min_price = 0
            \/ IsMinOver(screen.chart_min_price, screen.display_prices)
         /\ screen.chart_min_price <= 0
         /\ \A i \in 1..Len(screen.display_prices) :
               screen.chart_min_price <= screen.display_prices[i].price
         /\ screen.price_range =
               IF screen.chart_max_price = screen.chart_min_price THEN 1
               ELSE screen.chart_max_price - screen.chart_min_price
         /\ Len(screen.bars) = Len(screen.display_prices)
         /\ ConstantPrice(screen.display_prices) =>
               \A i, j \in 1..Len(screen.bars) :
                   screen.bars[i].height = screen.bars[j].height

\* a window of two points of one negative price: chart_min equals chart_max
\* and the range is forced to 1
C17_Witness ==
    /\ screen.drawn /\ Len(screen.display_prices) = 2
    /\ ConstantPrice(screen.display_prices)
    /\ screen.chart_min_price = screen.chart_max_price
    /\ screen.chart_max_price < 0
    /\ screen.price_range = 1
    /\ screen.bars[1].height = 0

\* C18: when the tomorrow gas price is None the call draws no tomorrow gas
\* label or value and completes without raising, whatever today's gas price
\* and the electricity series are
C18_NoTomorrowGasLabelWithoutPrice ==
    (screen # Blank /\ gas_price.tomorrow = None)
    => (~screen.gas_tmrw_label /\ screen.error = "none" /\ screen.drawn)

\* tomorrow's electricity is charted, today's gas price is known and
\* tomorrow's is not
C18_Witness ==
    /\ screen.drawn /\ screen.has_tomorrow /\ screen.tmrw_label
    /\ gas_price.today # None /\ gas_price.tomorrow = None
    /\ ~screen.gas_tmrw_label

\* round(num / den), den > 0, halves to the even neighbour
round(num, den) ==
    LET q == num \div den
        r == num % den
    IN IF 2 * r < den THEN q
       ELSE IF 2 * r > den THEN q + 1
       ELSE IF q % 2 = 0 THEN q ELSE q + 1

BarPrice(i) == screen.display_prices[i].price

\* C20 as claimed: the height of every bar is
\* round((price - chart_min) / range * chart_height) and the bar is drawn
\* from chart_bottom - height to chart_bottom
C20_BarHeightRounded ==
    screen.drawn =>
      \A i \in 1..Len(screen.bars) :
        /\ screen.bars[i].height =
              round((BarPrice(i) - screen.chart_min_price) * chart_height,
                    screen.price_range)
        /\ screen.bars[i].top = chart_bottom - screen.bars[i].height
        /\ screen.bars[i].bottom = chart_bottom

\* C20 as amended: the height of every bar is
\* int((price - chart_min) / range * chart_height), the quotient cut to the
\* whole pixel below it, and the bar is drawn from chart_bottom - height to
\* chart_bottom, in both variants
C20_BarHeightTruncated ==
    screen.drawn =>
      \A i \in 1..Len(screen.bars) :
        LET num == (BarPrice(i) - screen.chart_min_price) * chart_height
            h == screen.bars[i].height
        IN /\ h * screen.price_range <= num
           /\ num < (h + 1) * screen.price_range
           /\ screen.bars[i].top = chart_bottom - h
           /\ screen.bars[i].bottom = chart_bottom

\* a bar whose exact height has a fraction of a half or more
C20_Witness ==
    /\ screen.drawn
    /\ \E i \in 1..Len(screen.bars) :
         LET num == (BarPrice(i) - screen.chart_min_price) * chart_height
         IN /\ 2 * (num % screen.price_range) >= screen.price_range
            /\ screen.bars[i].height = num \div screen.price_range
            /\ screen.bars[i].height > 0

---------------------------------------------------------------------------
(* ha_integration.py.  A Home Assistant state, and the value of a          *)
(* condition, is [text, num]: its string and, where float() accepts the    *)
(* string, the number as <<n>>.  A response is [status, state].            *)

Val(text, num) == [text |-> text, num |-> num]

HaStates ==
    {Val("40", Some(40)), Val("70", Some(70)), Val("on", None)}

HaResponses ==
    [status : {"neterr"}, state : {Val("", None)}]
    \cup [status : {"ok"}, state : HaStates]

ConditionTypes ==
    {"less_than", "greater_than", "equals", "not_equals", "between"}

ConditionValues == {Val("60", Some(60)), Val("on", None)}

Conditions ==
    [entity_id : {"sensor.humidity"}, condition : ConditionTypes,
     value : ConditionValues]

MaxConditions == 2

ConditionLists ==
    UNION {[1..n -> Conditions] : n \in 0..MaxConditions}

\* str.upper() on the configured logic
upper(logic) ==
    IF logic = "and" THEN "AND" ELSE IF logic = "or" THEN "OR" ELSE logic

get_entity_state(config_available, r) ==
    IF ~config_available THEN None
    ELSE IF r.status # "ok" THEN None
    ELSE Some(r.state)

\* mutant of evaluate_condition: less_than and greater_than are swapped
evaluate_condition_swapped(condition, config_available, r) ==
    LET state_data == get_entity_state(config_available, r)
    IN IF state_data = None THEN FALSE
       ELSE LET current_state == state_data[1]
                expected_value == condition.value
            IN IF condition.condition \in {"less_than", "greater_than"}
               THEN IF current_state.num = None \/ expected_value.num = None
                    THEN FALSE
                    ELSE IF condition.condition = "less_than"
                    THEN current_state.num[1] > expected_value.num[1]
                    ELSE current_state.num[1] < expected_value.num[1]
               ELSE IF condition.condition = "equals"
               THEN current_state.text = expected_value.text
               ELSE IF condition.condition = "not_equals"
               THEN current_state.text # expected_value.text
               ELSE FALSE

evaluate_condition(condition, config_available, r) ==
    LET state_data == get_entity_state(config_available, r)
    IN IF state_data = None THEN FALSE
       ELSE LET current_state == state_data[1]
                expected_value == condition.value
            IN IF condition.condition \in {"less_than", "greater_than"}
               THEN IF current_state.num = None \/ expected_value.num = None
                    THEN FALSE
                    ELSE IF condition.condition = "less_than"
                    THEN current_state.num[1] < expected_value.num[1]
                    ELSE current_state.num[1] > expected_value.num[1]
               ELSE IF condition.condition = "equals"
               THEN current_state.text = expected_value.text
               ELSE IF condition.condition = "not_equals"
               THEN current_state.text # expected_value.text
               ELSE FALSE

\* rs[i] is the answer to the request made for the i-th condition
should_flash_dehumidifier(h, rs) ==
    IF ~h.CONFIG_AVAILABLE THEN FALSE
    ELSE IF h.CONDITIONS = <<>> THEN FALSE
    ELSE LET results == [i \in 1..Len(h.CONDITIONS) |->
                 evaluate_condition(h.CONDITIONS[i], h.CONFIG_AVAILABLE, rs[i])]
         IN IF upper(h.CONDITION_LOGIC) = "AND"
            THEN \A i \in 1..Len(results) : results[i]
            ELSE \E i \in 1..Len(results) : results[i]

HaInit ==
    /\ variant \in {"dashboard", "snap"}
    /\ tz = 0
    /\ dst = None
    /\ today = 0
    /\ files = [d \in Dates |-> Absent]
    /\ today_prices = <<>>
    /\ tomorrow_prices = <<>>
    /\ agile_prices = <<>>
    /\ gas_price = NoGas
    /\ ops = <<>>
    /\ raised = FALSE
    /\ now = [hour |-> 0, minute |-> 0]
    /\ screen = Blank
    /\ main = NotStarted
    /\ \E config_available \in BOOLEAN, conditions \in ConditionLists,
          logic \in {"AND", "OR", "and"} :
         ha = [NotConfigured EXCEPT !.CONFIG_AVAILABLE = config_available,
                                    !.CONDITIONS = conditions,
                                    !.CONDITION_LOGIC = logic]

ShouldFlashDehumidifier ==
    /\ \E rs \in [1..Len(ha.CONDITIONS) -> HaResponses] :
         ha' = [ha EXCEPT !.called = TRUE,
                          !.responses = IF ha.CONFIG_AVAILABLE THEN rs
                                        ELSE <<>>,
                          !.result = should_flash_dehumidifier(ha, rs)]
    /\ UNCHANGED <<variant, tz, dst, today, files, today_prices,
                   tomorrow_prices, agile_prices, gas_price, ops, raised, now,
                   screen, main>>

HaNext == ShouldFlashDehumidifier

HaSpec == HaInit /\ [][HaNext]_vars

\* the i-th condition compared with the state its request returned
Met(i) ==
    LET c == ha.CONDITIONS[i]
        st == ha.responses[i].state
    IN /\ ha.responses[i].status = "ok"
       /\ \/ /\ c.condition = "less_than"
             /\ st.num # None /\ c.value.num # None
             /\ st.num[1] < c.value.num[1]
          \/ /\ c.condition = "greater_than"
             /\ st.num # None /\ c.value.num # None
             /\ st.num[1] > c.value.num[1]
          \/ c.condition = "equals" /\ st.text = c.value.text
          \/ c.condition = "not_equals" /\ st.text # c.value.text

FetchFailed(i) == ha.responses[i].status # "ok"

ByLogic ==
    IF ha.CONDITION_LOGIC \in {"AND", "and"}
    THEN \A i \in 1..Len(ha.CONDITIONS) : Met(i)
    ELSE \E i \in 1..Len(ha.CONDITIONS) : Met(i)

\* C19: should_flash_dehumidifier returns False if the integration is not
\* configured, if no conditions are configured, if sensor data cannot be
\* fetched or if the conditions are not met; otherwise it returns True
\* according to CONDITION_LOGIC (AND: every condition met, OR: at least one)
C19_FlashByConditionLogic ==
    ha.called =>
      /\ ~ha.CONFIG_AVAILABLE => ~ha.result
      /\ ha.CONDITIONS = <<>> => ~ha.result
      /\ (ha.CONFIG_AVAILABLE /\ ha.CONDITIONS # <<>>) =>
           /\ (\E i \in 1..Len(ha.CONDITIONS) : FetchFailed(i)) => ~ha.result
           /\ (\A i \in 1..Len(ha.CONDITIONS) : ~FetchFailed(i)) =>
                 (ha.result <=> ByLogic)

\* the same with a condition whose sensor cannot be fetched counted as not
\* met, instead of a failed fetch forcing False
FlashByConditionLogicPerCondition ==
    ha.called =>
      /\ ~ha.CONFIG_AVAILABLE => ~ha.result
      /\ ha.CONDITIONS = <<>> => ~ha.result
      /\ (ha.CONFIG_AVAILABLE /\ ha.CONDITIONS # <<>>) =>
           /\ (\A i \in 1..Len(ha.CONDITIONS) : FetchFailed(i)) => ~ha.result
           /\ ha.result <=> ByLogic

---------------------------------------------------------------------------
(* The gridlines, the current-slot marker and the order of the drawing     *)
(* calls, checked under DrawSpec                                           *)

\* the price levels at which a gridline was drawn
GridlineLevels ==
    {screen.draws[k].idx : k \in {j \in 1..Len(screen.draws) :
                                    screen.draws[j].op = "gridline"}}

\* the multiples of 10 within [chart_min, chart_max]
LevelsInRange ==
    {v \in (screen.chart_min_price)..(screen.chart_max_price) :
        v % gridline_interval = 0}

\* C21: a gridline is drawn at every multiple of 10 pence within
\* [chart_min, chart_max], negative multiples included, and at no value
\* outside that interval, in both variants
C21_GridlinesAtMultiplesInRange ==
    (screen.drawn /\ screen.display_prices # <<>>)
    => GridlineLevels = LevelsInRange

\* the snapshot variant's loop does so
SnapGridlinesAtMultiplesInRange ==
    (variant = "snap" /\ screen.drawn /\ screen.display_prices # <<>>)
    => GridlineLevels = LevelsInRange

\* dashboard.py draws no gridline below 0
DashboardGridlinesFromZero ==
    (variant = "dashboard" /\ screen.drawn /\ screen.display_prices # <<>>)
    => /\ \A v \in GridlineLevels : v >= 0 /\ v % gridline_interval = 0
       /\ \A v \in LevelsInRange : v >= 0 => v \in GridlineLevels

\* a snapshot chart with a gridline below 0
NegativeGridlineDrawn ==
    /\ variant = "snap" /\ screen.drawn
    /\ \E v \in GridlineLevels : v < 0

\* no gridline is drawn above chart_max: so in the snapshot variant; in
\* dashboard.py only the pixel row of a level is tested, and a level just
\* above chart_max falls on the top row of the chart
NoGridlineAboveMax ==
    screen.drawn => \A v \in GridlineLevels : v <= screen.chart_max_price

\* the bar indices, counted from 0, on which the dashed marker was drawn
Markers ==
    {screen.draws[k].idx : k \in {j \in 1..Len(screen.draws) :
                                    screen.draws[j].op = "marker"}}

\* the bars of the today portion of the window
TodayBars == SubSeq(screen.display_prices, 1, screen.tomorrow_start_idx)

\* a point of today holds the current slot and was trimmed from the window
CurrentSlotTrimmed ==
    \E k \in 1..Len(screen.all_today) :
        /\ IsCurrentSlot(screen.all_today[k], now)
        /\ screen.all_today[k] \notin Range(TodayBars)

\* C22: the dashed marker is drawn only on a bar of the today portion of
\* the window (index below tomorrow_start_idx) whose (hour, minute) is the
\* current slot, never on a tomorrow bar, and not at all when the current
\* slot was trimmed from the window
C22_MarkerOnlyOnTodayBar ==
    screen.drawn =>
      /\ \A i \in Markers :
            /\ i < screen.tomorrow_start_idx
            /\ IsCurrentSlot(screen.display_prices[i + 1], now)
      /\ CurrentSlotTrimmed => Markers = {}

\* today and tomorrow are both charted, a bar of each holds the current
\* (hour, minute), and the marker is on the today bar alone
C22_Witness ==
    /\ screen.drawn /\ screen.has_tomorrow
    /\ \E i \in Markers : i < screen.tomorrow_start_idx
    /\ \E j \in (screen.tomorrow_start_idx + 1)..Len(screen.display_prices) :
          /\ IsCurrentSlot(screen.display_prices[j], now)
          /\ (j - 1) \notin Markers

\* the current slot was trimmed, a tomorrow bar holds the same
\* (hour, minute), and no marker is drawn
TrimmedSlotUnmarked ==
    /\ screen.drawn /\ CurrentSlotTrimmed /\ Markers = {}
    /\ \E j \in (screen.tomorrow_start_idx + 1)..Len(screen.display_prices) :
          IsCurrentSlot(screen.display_prices[j], now)

\* every today bar of the window that holds the current slot is marked
CurrentTodayBarMarked ==
    screen.drawn =>
      \A i \in 1..screen.tomorrow_start_idx :
         IsCurrentSlot(screen.display_prices[i], now) => (i - 1) \in Markers

\* the positions in the sequence of drawing calls at which `op` was drawn
At(op) == {k \in 1..Len(screen.draws) : screen.draws[k].op = op}

Before(a, b) == \A i \in At(a), j \in At(b) : i < j

\* the left edge of the chart
ChartLeft == IF variant = "snap" THEN chart_left ELSE chart_x

\* tomorrow's points among the input of the call
TomorrowNonEmpty == TomorrowInput # <<>>

\* C23: the tomorrow tint is drawn first, then every gridline, then every
\* bar, then the 'Tmrw' label; the tint starts at
\* x = chart_left + tomorrow_start_idx * bar_width, and tint and label are
\* drawn if and only if tomorrow is non-empty and tomorrow_start_idx is
\* below the length of the window
C23_TintGridlinesBarsLabel ==
    (screen.drawn /\ ~screen.loading) =>
      /\ Before("tint", "gridline") /\ Before("tint", "bar")
      /\ Before("gridline", "bar")
      /\ Before("bar", "Tmrw") /\ Before("gridline", "Tmrw")
      /\ Before("tint", "Tmrw")
      /\ \A k \in At("tint") :
            screen.draws[k].x =
                ChartLeft + screen.tomorrow_start_idx * screen.bar_width
      /\ LET split == /\ TomorrowNonEmpty
                      /\ screen.tomorrow_start_idx
                            < Len(screen.display_prices)
         IN /\ split <=> At("tint") # {}
            /\ split <=> At("Tmrw") # {}
            /\ Cardinality(At("tint")) <= 1
            /\ Cardinality(At("Tmrw")) <= 1
      /\ Cardinality(At("bar")) = Len(screen.display_prices)

\* a window of today and tomorrow with tint, gridlines, bars and label
C23_Witness ==
    /\ screen.drawn /\ screen.has_tomorrow
    /\ screen.tomorrow_start_idx > 0
    /\ At("tint") # {} /\ At("Tmrw") # {}
    /\ Cardinality(At("gridline")) > 1
    /\ Cardinality(At("bar")) > screen.tomorrow_start_idx

\* the first point of today's input that holds the current slot, if any
MatchingPrice == find_current_price(TodayInput, now)

\* C25: the Now box is drawn in the default blue with no value exactly
\* when the current price is falsy: a matching today point of price 0 is
\* drawn like a missing match, and every matching non-zero price, negative
\* ones included, is drawn with its value in its threshold colour
C25_NowBoxDefaultIffFalsy ==
    (screen.drawn /\ ~screen.loading) =>
      /\ screen.current_price = MatchingPrice
      /\ (MatchingPrice = None \/ MatchingPrice = Some(0)) =>
            /\ screen.now_color = "BLUE"
            /\ screen.now_text = None
      /\ (MatchingPrice # None /\ MatchingPrice # Some(0)) =>
            /\ screen.now_text = MatchingPrice
            /\ screen.now_color =
                 LET price == MatchingPrice[1]
                 IN IF price < 10 THEN "GREEN"
                    ELSE IF price < 20 THEN "BLUE"
                    ELSE IF price < 35 THEN "YELLOW"
                    ELSE "RED"

\* the current slot's point of today has the price 0 and the box is blue
\* and empty
C25_Witness ==
    /\ screen.drawn /\ ~screen.loading
    /\ MatchingPrice = Some(0)
    /\ screen.now_color = "BLUE" /\ screen.now_text = None

\* a negative current price is drawn green with its value
NegativeNowPriceDrawn ==
    /\ screen.drawn /\ MatchingPrice # None /\ MatchingPrice[1] < 0
    /\ screen.now_color = "GREEN" /\ screen.now_text = MatchingPrice

---------------------------------------------------------------------------
(* The inner try of dashboard.py around the request for tomorrow, checked  *)
(* under Spec                                                              *)

\* the last call requested tomorrow and the request, the status check or
\* the parsing of the response failed
TomorrowRequestFailed ==
    /\ FetchReturned
    /\ \E i \in 1..Len(ops) :
          ops[i].op = "get_error" /\ ops[i].date = CallDay + 1

\* ... with the failure in the parsing, after points had been appended
TomorrowParseFailedMidway ==
    /\ FetchReturned
    /\ \E i \in 1..Len(ops) :
          /\ ops[i].op = "get_error" /\ ops[i].date = CallDay + 1
          /\ ops[i].n > 0

\* the frame of such a call: no tomorrow file is written, and today's
\* series is the one loaded from today's file, which is left alone, or the
\* one fetched and written to it before the request for tomorrow
TomorrowFailureFrame ==
    /\ \A i \in 1..Len(ops') :
          ~(ops'[i].op = "write" /\ ops'[i].date = CallDay' + 1)
    /\ files'[CallDay' + 1] = files[CallDay' + 1]
    /\ IF CacheGavePoints(CallDay)'
       THEN /\ files'[CallDay'] = files[CallDay']
            /\ today_prices' = load_cache(files[CallDay'])
       ELSE files'[CallDay'] = JsonFile(cache_data(today_prices'))

\* C26: when the request for tomorrow or the parsing of its response
\* fails, dashboard.py fetch_agile_prices returns today's series as loaded
\* or fetched together with an empty tomorrow series, writes no tomorrow
\* cache file and leaves today's cache file as it was before the request
C26_TomorrowFailureKeepsToday ==
    [][(variant = "dashboard" /\ ops' # ops /\ TomorrowRequestFailed')
        => (TomorrowFailureFrame /\ tomorrow_prices' = <<>>)]_vars

\* what holds of every such call: the frame
TomorrowFailureKeepsTodayAndFiles ==
    [][(variant = "dashboard" /\ ops' # ops /\ TomorrowRequestFailed')
        => TomorrowFailureFrame]_vars

\* ... and an empty tomorrow series unless the parsing failed after points
\* had been appended
TomorrowEmptyUnlessParsedMidway ==
    [][(variant = "dashboard" /\ ops' # ops /\ TomorrowRequestFailed'
        /\ ~TomorrowParseFailedMidway')
        => tomorrow_prices' = <<>>]_vars

\* a call whose request for tomorrow failed returned today's points
TomorrowFailureReached ==
    /\ variant = "dashboard" /\ TomorrowRequestFailed
    /\ ~TomorrowParseFailedMidway
    /\ today_prices # <<>> /\ tomorrow_prices = <<>>

---------------------------------------------------------------------------
(* The periods of main's loop, checked under MainSpec                      *)

\* a step that is one pass of the body of `while True`
LoopPass == main.pc = "loop" /\ main' # main

\* the data main holds after a step
DataAfter ==
    [today_prices |-> today_prices', tomorrow_prices |-> tomorrow_prices',
     agile_prices |-> agile_prices', gas_price |-> gas_price']

NoFetchAtInterval ==
    /\ main.pc = "loop" /\ ~main.fetched
    /\ main.elapsed = update_interval /\ main.redrawn

\* C27: in the loop of dashboard.py a refresh whose fetch ends in the
\* handler of fetch_agile_prices replaces the series main holds by empty
\* ones and still moves last_update, so that every redraw shows the
\* 'Loading...' placeholder and no fetch is attempted until more than 300
\* further seconds have passed, whatever main held before the refresh
C27_FailedRefreshBlanksUntilNextInterval ==
    [][(variant = "dashboard" /\ LoopPass) =>
         /\ (main.fetched' /\ TookExceptPath') =>
               /\ today_prices' = <<>> /\ tomorrow_prices' = <<>>
               /\ main.since' <= redraw_sleep + MaxFetchTime
               /\ main.error' = "none" => screen'.loading
         /\ (today_prices = <<>> /\ main.since <= update_interval) =>
               /\ ~main.fetched'
               /\ today_prices' = <<>>
               /\ main.error' = "none" => screen'.loading]_vars

\* today's cache file holds the points main was showing, one of them
\* damaged; the refresh that read it left main with empty series and the
\* placeholder on the screen
C27_Witness ==
    /\ variant = "dashboard" /\ main.pc = "loop"
    /\ main.fetched /\ TookExceptPath
    /\ files[today].kind = "json" /\ Len(files[today].items) > 1
    /\ today_prices = <<>> /\ tomorrow_prices = <<>>
    /\ screen.loading
    /\ main.since <= redraw_sleep + MaxFetchTime

\* the placeholder is still shown 300 seconds after the failed refresh
StillLoadingAtInterval ==
    /\ variant = "dashboard" /\ main.pc = "loop"
    /\ ~main.fetched /\ main.elapsed = update_interval
    /\ files[today].kind = "json" /\ Len(files[today].items) > 1
    /\ today_prices = <<>> /\ screen.loading

====
